---- MODULE Spec2Model ----
(***************************************************************************)
(* Model of src/utility/disentangle/disentangle_trunc_error.py: the two    *)
(* dispatchers (disentangle, disentangle_approx) and the four drivers      *)
(* (disentangle_CG, disentangle_approx_CG, disentangle_TRM,                *)
(* disentangle_approx_TRM) that wire an iterate-construction closure and a *)
(* Stiefel manifold into a Riemannian optimizer, run it once and write     *)
(* diagnostics into a caller-owned debug dictionary.                       *)
(*                                                                         *)
(* The optimizer engines, the iterate classes, check_debug_level and       *)
(* append_to_dict_list live in other modules of the repository; they are   *)
(* modelled from their documented interface.                               *)
(***************************************************************************)
EXTENDS Integers, Sequences, FiniteSets, TLC

VARIABLES
    pc,          \* "idle" | "optimizing" | "returned" | "raised"
    call,        \* the caller's invocation of an entry point
    drivers,     \* frames of the drivers entered during the current call
    opt,         \* the optimizer object built by the driver
    cur,         \* the iterate the optimizer currently holds
    last,        \* the last call of the construct_iterate closure
    next_id,     \* identity given to the next iterate object
    result,      \* value returned to the caller
    raised,      \* exception raised to the caller
    debug_dict,  \* the caller-owned debug dictionary
    dict_before, \* debug_dict as it was when the current call started
    dict0,       \* debug_dict as it was before the first call
    done,        \* completed driver runs that were handed debug_dict
    runs         \* number of calls made so far

vars == <<pc, call, drivers, opt, cur, last, next_id, result, raised,
          debug_dict, dict_before, dict0, done, runs>>

(***************************************************************************)
(* Bounds                                                                  *)
(***************************************************************************)
MaxIters == 2     \* iterations the optimizer may take in one run
MaxRuns == 2      \* calls sharing one debug_dict
MaxChi == 2       \* largest truncated bond dimension chi

(***************************************************************************)
(* Python values.  None and integers share one comparable encoding; a      *)
(* keyword argument is either omitted or passed with a value.              *)
(***************************************************************************)
None == <<>>
Num(n) == <<n>>
Omitted == <<>>
Passed(v) == <<v>>
Default(arg, d) == IF arg = Omitted THEN d ELSE arg[1]

(***************************************************************************)
(* Defaults of the keyword parameters                                      *)
(***************************************************************************)
N_iters_svd_CG == 5
N_iters_svd_TRM == 2
N_iters_svd_initial_CG == 50
N_iters_svd_initial_TRM == 50
eps_svd_default == 0

(***************************************************************************)
(* debug_levels                                                            *)
(***************************************************************************)
LOG_PER_ITERATION_DEBUG_INFO_DISENTANGLER_TRIPARTITE_DECOMPOSITION ==
    "LOG_PER_ITERATION_DEBUG_INFO_DISENTANGLER_TRIPARTITE_DECOMPOSITION"
LOG_DISENTANGLER_TRIPARTITE_DECOMPOSITION_ITERATION_INFO ==
    "LOG_DISENTANGLER_TRIPARTITE_DECOMPOSITION_ITERATION_INFO"
DebugLevel ==
    { LOG_PER_ITERATION_DEBUG_INFO_DISENTANGLER_TRIPARTITE_DECOMPOSITION,
      LOG_DISENTANGLER_TRIPARTITE_DECOMPOSITION_ITERATION_INFO }

\* debug is TRUE when the caller passed its dictionary, FALSE for None
check_debug_level(debug, level) ==
    debug /\ level \in debug_dict.debug_level

append_to_dict_list(d, key, value) ==
    [d EXCEPT ![key] = IF @ = Omitted THEN Passed(<<value>>)
                       ELSE Passed(Append(@[1], value))]

(***************************************************************************)
(* numpy: np.eye and np.reshape (row-major) on 0-based indices             *)
(***************************************************************************)
Eye(n) == [ij \in (0..n-1) \X (0..n-1) |-> IF ij[1] = ij[2] THEN 1 ELSE 0]

Reshape(M, shape) ==
    [shape |-> shape,
     data |-> [x \in (0..shape[1]-1) \X (0..shape[2]-1)
                     \X (0..shape[3]-1) \X (0..shape[4]-1) |->
                 M[<<x[1] * shape[2] + x[2], x[3] * shape[4] + x[4]>>]]]

\* a point the manifold's retraction can produce: a cyclic permutation
Permutation(n, s) ==
    [ij \in (0..n-1) \X (0..n-1) |-> IF ij[2] = (ij[1] + s) % n THEN 1 ELSE 0]

ComplexStiefelManifold(n, p, shape) == [n |-> n, p |-> p, shape |-> shape]

(***************************************************************************)
(* truncErrorIterate: the iterate classes.  kw holds the keyword arguments *)
(* chi_max, N_iters_svd, eps_svd, old_iterate of the constructor call.     *)
(***************************************************************************)
TruncErrorIterate(cls, id, U, theta, chi, kw) ==
    [cls |-> cls, id |-> id, U |-> U, theta |-> theta, chi |-> chi,
     chi_max |-> IF Default(kw.chi_max, None) = None THEN chi
                 ELSE kw.chi_max[1][1],
     N_iters_svd |-> Default(kw.N_iters_svd, None),
     eps_svd |-> Default(kw.eps_svd, 0),
     old_iterate |-> Default(kw.old_iterate, None)]

NoIterate == TruncErrorIterate("none", 0, Reshape(Eye(1), <<1, 1, 1, 1>>),
                 [name |-> "none", shape |-> <<1, 1, 1, 1>>], 0,
                 [chi_max |-> Omitted, N_iters_svd |-> Omitted,
                  eps_svd |-> Omitted, old_iterate |-> Omitted])

(***************************************************************************)
(* The construct_new_iterate closures of the four drivers.  A closure is   *)
(* the record of the variables it captures; applying it to                 *)
(* (U, old_iterate) builds the iterate object with identity id.            *)
(***************************************************************************)
Closure(driver, theta, chi, chi_max, N_iters_svd, eps_svd) ==
    [driver |-> driver, theta |-> theta, chi |-> chi, chi_max |-> chi_max,
     N_iters_svd |-> N_iters_svd, eps_svd |-> eps_svd]

construct_new_iterate_CG(c, id, U, old_iterate) ==
    TruncErrorIterate("TruncErrorIterateCG", id, U, c.theta, c.chi,
        [chi_max |-> Passed(None), N_iters_svd |-> Passed(None),
         eps_svd |-> Passed(0), old_iterate |-> Passed(None)])


\* variant: the closure ignores the N_iters_svd it was given
construct_new_iterate_approx_CG_fixed_iters(c, id, U, old_iterate) ==
    TruncErrorIterate("TruncErrorIterateCG", id, U, c.theta, c.chi,
        [chi_max |-> Passed(None), N_iters_svd |-> Passed(Num(N_iters_svd_CG)),
         eps_svd |-> Passed(c.eps_svd), old_iterate |-> Omitted])

construct_new_iterate_approx_CG(c, id, U, old_iterate) ==
    TruncErrorIterate("TruncErrorIterateCG", id, U, c.theta, c.chi,
        [chi_max |-> Passed(None), N_iters_svd |-> Passed(c.N_iters_svd),
         eps_svd |-> Passed(c.eps_svd), old_iterate |-> Omitted])

construct_new_iterate_TRM(c, id, U, old_iterate) ==
    TruncErrorIterate("TruncErrorIterateTRM", id, U, c.theta, c.chi,
        [chi_max |-> Omitted, N_iters_svd |-> Omitted,
         eps_svd |-> Omitted, old_iterate |-> Omitted])


\* variant: the closure hands N_iters_svd over as chi_max
construct_new_iterate_approx_TRM_mixed_up(c, id, U, old_iterate) ==
    TruncErrorIterate("TruncErrorIterateApproxTRM", id, U, c.theta, c.chi,
        [chi_max |-> Passed(c.N_iters_svd), N_iters_svd |-> Passed(c.N_iters_svd),
         eps_svd |-> Passed(c.eps_svd), old_iterate |-> Passed(old_iterate)])

construct_new_iterate_approx_TRM(c, id, U, old_iterate) ==
    TruncErrorIterate("TruncErrorIterateApproxTRM", id, U, c.theta, c.chi,
        [chi_max |-> Passed(c.chi_max), N_iters_svd |-> Passed(c.N_iters_svd),
         eps_svd |-> Passed(c.eps_svd), old_iterate |-> Passed(old_iterate)])

construct_iterate(c, id, U, old_iterate) ==
    CASE c.driver = "disentangle_CG" ->
             construct_new_iterate_CG(c, id, U, old_iterate)
      [] c.driver = "disentangle_approx_CG" ->
             construct_new_iterate_approx_CG(c, id, U, old_iterate)
      [] c.driver = "disentangle_TRM" ->
             construct_new_iterate_TRM(c, id, U, old_iterate)
      [] c.driver = "disentangle_approx_TRM" ->
             construct_new_iterate_approx_TRM(c, id, U, old_iterate)

(***************************************************************************)
(* Keyword arguments of a call.  options stands for the optimizer          *)
(* hyperparameters, which the drivers forward without looking at them.     *)
(***************************************************************************)
Tuning == {"chi_max", "N_iters_svd", "eps_svd", "N_iters_svd_initial"}

NoKwargs == [chi_max |-> Omitted, N_iters_svd |-> Omitted, eps_svd |-> Omitted,
             N_iters_svd_initial |-> Omitted, options |-> Omitted]

\* **kwargs of a function whose named parameters are bound
Rest(kwargs, bound) ==
    [k \in DOMAIN kwargs |-> IF k \in bound THEN Omitted ELSE kwargs[k]]

(***************************************************************************)
(* The optimizer engines (conjugate_gradients.ConjugateGradientsOptimizer, *)
(* trust_region_method.TrustRegionOptimizer)                               *)
(***************************************************************************)
Optimizer(engine, manifold, closure, kwargs) ==
    [engine |-> engine, manifold |-> manifold, construct_iterate |-> closure,
     kwargs |-> kwargs, optimize_calls |-> 0, initial |-> NoIterate,
     log_debug_info |-> FALSE, n |-> 0,
     num_restarts_not_descent |-> 0, num_restarts_powell |-> 0]

NoOptimizer ==
    Optimizer("none", ComplexStiefelManifold(1, 1, <<1, 1, 1, 1>>),
              Closure("none", [name |-> "none", shape |-> <<1, 1, 1, 1>>],
                      0, None, None, 0),
              NoKwargs)

\* optimizer.optimize(initial_iterate, log_debug_info=...) is entered
optimize(o, initial_iterate, log_debug_info) ==
    [o EXCEPT !.optimize_calls = @ + 1, !.initial = initial_iterate,
              !.log_debug_info = log_debug_info]

DebugInfo(o, names) ==
    IF o.log_debug_info
    THEN [i \in 1..Len(names) |-> [what |-> names[i], n |-> o.n]]
    ELSE None

NoLast == [called |-> FALSE, U |-> NoIterate.U, old_iterate |-> None,
           iterate |-> NoIterate]

NoCall == [entry |-> "none", theta |-> NoIterate.theta, chi |-> 0,
           method |-> Omitted, debug |-> FALSE, kwargs |-> NoKwargs]

Frame(name, theta, chi, debug, kwargs, U0, log_debug_info) ==
    [name |-> name, theta |-> theta, chi |-> chi, debug |-> debug,
     kwargs |-> kwargs, U0 |-> U0, log_debug_info |-> log_debug_info]

\* the driver has built its optimizer and entered optimize(initial, ...)
EnterOptimize(frame, optimizer, initial) ==
    /\ drivers' = <<frame>>
    /\ opt' = optimize(optimizer, initial, frame.log_debug_info)
    /\ cur' = initial
    /\ last' = NoLast
    /\ next_id' = initial.id + 1
    /\ pc' = "optimizing"
    /\ result' = None
    /\ raised' = None
    /\ UNCHANGED debug_dict

(***************************************************************************)
(* The four drivers up to the call of optimize()                           *)
(***************************************************************************)
disentangle_CG(theta, chi, debug, kwargs) ==
    LET D1 == theta.shape[2]
        D2 == theta.shape[3]
        U0 == Reshape(Eye(D1 * D2), <<D1, D2, D1, D2>>)
        c == Closure("disentangle_CG", theta, chi, None, None, 0)
        manifold == ComplexStiefelManifold(D1 * D2, D1 * D2, U0.shape)
        optimizer == Optimizer("CG", manifold, c, kwargs)
        log_debug_info == check_debug_level(debug,
            LOG_PER_ITERATION_DEBUG_INFO_DISENTANGLER_TRIPARTITE_DECOMPOSITION)
    IN  EnterOptimize(
            Frame("disentangle_CG", theta, chi, debug, kwargs, U0, log_debug_info),
            optimizer, construct_new_iterate_CG(c, 0, U0, None))


\* variant: the initial iterate is built with N_iters_svd
disentangle_approx_CG_same_iters(theta, chi, debug, kwargs) ==
    LET N_iters_svd == Default(kwargs.N_iters_svd, Num(N_iters_svd_CG))
        eps_svd == Default(kwargs.eps_svd, eps_svd_default)
        rest == Rest(kwargs, {"N_iters_svd", "eps_svd", "N_iters_svd_initial"})
        D1 == theta.shape[2]
        D2 == theta.shape[3]
        U0 == Reshape(Eye(D1 * D2), <<D1, D2, D1, D2>>)
        c == Closure("disentangle_approx_CG", theta, chi, None, N_iters_svd, eps_svd)
        manifold == ComplexStiefelManifold(D1 * D2, D1 * D2, U0.shape)
        optimizer == Optimizer("CG", manifold, c, rest)
        log_debug_info == check_debug_level(debug,
            LOG_PER_ITERATION_DEBUG_INFO_DISENTANGLER_TRIPARTITE_DECOMPOSITION)
    IN  EnterOptimize(
            Frame("disentangle_approx_CG", theta, chi, debug, kwargs, U0,
                  log_debug_info),
            optimizer,
            TruncErrorIterate("TruncErrorIterateCG", 0, U0, theta, chi,
                [chi_max |-> Passed(None),
                 N_iters_svd |-> Passed(N_iters_svd),
                 eps_svd |-> Passed(eps_svd), old_iterate |-> Passed(None)]))

disentangle_approx_CG(theta, chi, debug, kwargs) ==
    LET N_iters_svd == Default(kwargs.N_iters_svd, Num(N_iters_svd_CG))
        eps_svd == Default(kwargs.eps_svd, eps_svd_default)
        N_iters_svd_initial ==
            Default(kwargs.N_iters_svd_initial, Num(N_iters_svd_initial_CG))
        rest == Rest(kwargs, {"N_iters_svd", "eps_svd", "N_iters_svd_initial"})
        D1 == theta.shape[2]
        D2 == theta.shape[3]
        U0 == Reshape(Eye(D1 * D2), <<D1, D2, D1, D2>>)
        c == Closure("disentangle_approx_CG", theta, chi, None, N_iters_svd, eps_svd)
        manifold == ComplexStiefelManifold(D1 * D2, D1 * D2, U0.shape)
        optimizer == Optimizer("CG", manifold, c, rest)
        log_debug_info == check_debug_level(debug,
            LOG_PER_ITERATION_DEBUG_INFO_DISENTANGLER_TRIPARTITE_DECOMPOSITION)
    IN  EnterOptimize(
            Frame("disentangle_approx_CG", theta, chi, debug, kwargs, U0,
                  log_debug_info),
            optimizer,
            TruncErrorIterate("TruncErrorIterateCG", 0, U0, theta, chi,
                [chi_max |-> Passed(None),
                 N_iters_svd |-> Passed(N_iters_svd_initial),
                 eps_svd |-> Passed(eps_svd), old_iterate |-> Passed(None)]))

disentangle_TRM(theta, chi, debug, kwargs) ==
    LET D1 == theta.shape[2]
        D2 == theta.shape[3]
        U0 == Reshape(Eye(D1 * D2), <<D1, D2, D1, D2>>)
        c == Closure("disentangle_TRM", theta, chi, None, None, 0)
        manifold == ComplexStiefelManifold(D1 * D2, D1 * D2, U0.shape)
        optimizer == Optimizer("TRM", manifold, c, kwargs)
        log_debug_info == check_debug_level(debug,
            LOG_PER_ITERATION_DEBUG_INFO_DISENTANGLER_TRIPARTITE_DECOMPOSITION)
    IN  EnterOptimize(
            Frame("disentangle_TRM", theta, chi, debug, kwargs, U0, log_debug_info),
            optimizer, construct_new_iterate_TRM(c, 0, U0, None))

disentangle_approx_TRM(theta, chi, debug, kwargs) ==
    LET chi_max_arg == Default(kwargs.chi_max, None)
        N_iters_svd == Default(kwargs.N_iters_svd, Num(N_iters_svd_TRM))
        eps_svd == Default(kwargs.eps_svd, eps_svd_default)
        N_iters_svd_initial ==
            Default(kwargs.N_iters_svd_initial, Num(N_iters_svd_initial_TRM))
        rest == Rest(kwargs, Tuning)
        chi_max == IF chi_max_arg = None THEN Num(chi) ELSE chi_max_arg
        D1 == theta.shape[2]
        D2 == theta.shape[3]
        U0 == Reshape(Eye(D1 * D2), <<D1, D2, D1, D2>>)
        c == Closure("disentangle_approx_TRM", theta, chi, chi_max,
                     N_iters_svd, eps_svd)
        manifold == ComplexStiefelManifold(D1 * D2, D1 * D2, U0.shape)
        optimizer == Optimizer("TRM", manifold, c, rest)
        log_debug_info == check_debug_level(debug,
            LOG_PER_ITERATION_DEBUG_INFO_DISENTANGLER_TRIPARTITE_DECOMPOSITION)
    IN  EnterOptimize(
            Frame("disentangle_approx_TRM", theta, chi, debug, kwargs, U0,
                  log_debug_info),
            optimizer,
            TruncErrorIterate("TruncErrorIterateApproxTRM", 0, U0, theta, chi,
                [chi_max |-> Passed(chi_max),
                 N_iters_svd |-> Passed(N_iters_svd_initial),
                 eps_svd |-> Passed(eps_svd), old_iterate |-> Passed(None)]))

(***************************************************************************)
(* The two dispatchers                                                     *)
(***************************************************************************)
NotImplementedError ==
    /\ pc' = "raised"
    /\ raised' = Passed("NotImplementedError")
    /\ result' = None
    /\ drivers' = <<>>
    /\ opt' = NoOptimizer
    /\ cur' = NoIterate
    /\ last' = NoLast
    /\ next_id' = 0
    /\ UNCHANGED debug_dict


\* variant: the two branches are exchanged
disentangle_swapped(theta, chi, method_arg, debug, kwargs) ==
    LET method == Default(method_arg, "trm")
    IN  IF method = "trm" THEN disentangle_CG(theta, chi, debug, kwargs)
        ELSE IF method = "cg" THEN disentangle_TRM(theta, chi, debug, kwargs)
        ELSE NotImplementedError

disentangle(theta, chi, method_arg, debug, kwargs) ==
    LET method == Default(method_arg, "trm")
    IN  IF method = "trm" THEN disentangle_TRM(theta, chi, debug, kwargs)
        ELSE IF method = "cg" THEN disentangle_CG(theta, chi, debug, kwargs)
        ELSE NotImplementedError


\* variant: every method other than "trm" falls through to CG
disentangle_approx_fallthrough(theta, chi, method_arg, debug, kwargs) ==
    LET method == Default(method_arg, "cg")
    IN  IF method = "trm" THEN disentangle_approx_TRM(theta, chi, debug, kwargs)
        ELSE disentangle_approx_CG(theta, chi, debug, kwargs)

disentangle_approx(theta, chi, method_arg, debug, kwargs) ==
    LET method == Default(method_arg, "cg")
    IN  IF method = "trm" THEN disentangle_approx_TRM(theta, chi, debug, kwargs)
        ELSE IF method = "cg" THEN disentangle_approx_CG(theta, chi, debug, kwargs)
        ELSE NotImplementedError

(***************************************************************************)
(* One iteration of an optimizer: it asks the closure for the iterate at a *)
(* candidate point of the manifold, handing over the iterate it holds.     *)
(***************************************************************************)
Candidates(manifold) == 0..(manifold.n - 1)

CandidateU(manifold, s) == Reshape(Permutation(manifold.n, s), manifold.shape)

CallClosure(U) ==
    [called |-> TRUE, U |-> U, old_iterate |-> Num(cur.id),
     iterate |-> construct_iterate(opt.construct_iterate, next_id, U,
                                   Num(cur.id))]

ConjugateGradientsStep ==
    /\ pc = "optimizing"
    /\ opt.engine = "CG"
    /\ opt.n < MaxIters
    /\ \E s \in Candidates(opt.manifold),
          kind \in {"descent", "restart_not_descent", "restart_powell"} :
          LET c == CallClosure(CandidateU(opt.manifold, s))
          IN  /\ last' = c
              /\ cur' = c.iterate
              /\ opt' = [opt EXCEPT
                    !.n = @ + 1,
                    !.num_restarts_not_descent =
                        IF kind = "restart_not_descent" THEN @ + 1 ELSE @,
                    !.num_restarts_powell =
                        IF kind = "restart_powell" THEN @ + 1 ELSE @]
    /\ next_id' = next_id + 1
    /\ UNCHANGED <<pc, call, drivers, result, raised, debug_dict, dict_before,
                   dict0, done, runs>>

TrustRegionStep ==
    /\ pc = "optimizing"
    /\ opt.engine = "TRM"
    /\ opt.n < MaxIters
    /\ \E s \in Candidates(opt.manifold), accept \in BOOLEAN :
          LET c == CallClosure(CandidateU(opt.manifold, s))
          IN  /\ last' = c
              /\ cur' = IF accept THEN c.iterate ELSE cur
    /\ opt' = [opt EXCEPT !.n = @ + 1]
    /\ next_id' = next_id + 1
    /\ UNCHANGED <<pc, call, drivers, result, raised, debug_dict, dict_before,
                   dict0, done, runs>>

(***************************************************************************)
(* The four drivers from the return of optimize() to their own return      *)
(***************************************************************************)
Return(frame, value, d) ==
    /\ result' = Passed(value)
    /\ debug_dict' = d
    /\ done' = IF frame.debug
               THEN [all |-> done.all + 1,
                     CG |-> IF opt.engine = "CG" THEN done.CG + 1 ELSE done.CG]
               ELSE done
    /\ pc' = "returned"
    /\ UNCHANGED <<call, drivers, opt, cur, last, next_id, raised, dict_before,
                   dict0, runs>>


\* variant: the summary keys are gated by the per-iteration flag
ReturnCG_one_gate(frame) ==
    LET iterate == cur
        n == opt.n
        debug_info == DebugInfo(opt, <<"iterates", "costs", "step_sizes">>)
        d1 == IF frame.log_debug_info
              THEN append_to_dict_list(
                     append_to_dict_list(
                       append_to_dict_list(debug_dict, "N_iters_disentangler", n),
                       "disentangler_num_restarts_not_descent",
                       opt.num_restarts_not_descent),
                     "disentangler_num_restarts_powell", opt.num_restarts_powell)
              ELSE debug_dict
        d2 == IF frame.log_debug_info
              THEN [d1 EXCEPT !.disentangler_iterates = Passed(debug_info[1]),
                              !.disentangler_costs = Passed(debug_info[2]),
                              !.disentangler_step_sizes = Passed(debug_info[3])]
              ELSE d1
    IN  Return(frame, iterate, d2)

ReturnCG(frame) ==
    LET iterate == cur
        n == opt.n
        num_restarts_not_descent == opt.num_restarts_not_descent
        num_restarts_powell == opt.num_restarts_powell
        debug_info == DebugInfo(opt, <<"iterates", "costs", "step_sizes">>)
        d1 == IF check_debug_level(frame.debug,
                    LOG_DISENTANGLER_TRIPARTITE_DECOMPOSITION_ITERATION_INFO)
              THEN append_to_dict_list(
                     append_to_dict_list(
                       append_to_dict_list(debug_dict, "N_iters_disentangler", n),
                       "disentangler_num_restarts_not_descent",
                       num_restarts_not_descent),
                     "disentangler_num_restarts_powell", num_restarts_powell)
              ELSE debug_dict
        d2 == IF frame.log_debug_info
              THEN [d1 EXCEPT !.disentangler_iterates = Passed(debug_info[1]),
                              !.disentangler_costs = Passed(debug_info[2]),
                              !.disentangler_step_sizes = Passed(debug_info[3])]
              ELSE d1
    IN  Return(frame, iterate, d2)


\* variant: the iteration count replaces the list instead of extending it
ReturnTRM_overwrite(frame) ==
    LET iterate == cur
        n == opt.n
        debug_info == DebugInfo(opt, <<"iterates", "costs", "deltas", "tCG_iters">>)
        d1 == IF check_debug_level(frame.debug,
                    LOG_DISENTANGLER_TRIPARTITE_DECOMPOSITION_ITERATION_INFO)
              THEN [debug_dict EXCEPT !.N_iters_disentangler = Passed(<<n>>)]
              ELSE debug_dict
        d2 == IF frame.log_debug_info
              THEN [d1 EXCEPT !.disentangler_iterates = Passed(debug_info[1]),
                              !.disentangler_costs = Passed(debug_info[2]),
                              !.disentangler_deltas = Passed(debug_info[3]),
                              !.disentangler_tCG_iters = Passed(debug_info[4])]
              ELSE d1
    IN  Return(frame, iterate, d2)

ReturnTRM(frame) ==
    LET iterate == cur
        n == opt.n
        debug_info == DebugInfo(opt, <<"iterates", "costs", "deltas", "tCG_iters">>)
        d1 == IF check_debug_level(frame.debug,
                    LOG_DISENTANGLER_TRIPARTITE_DECOMPOSITION_ITERATION_INFO)
              THEN append_to_dict_list(debug_dict, "N_iters_disentangler", n)
              ELSE debug_dict
        d2 == IF frame.log_debug_info
              THEN [d1 EXCEPT !.disentangler_iterates = Passed(debug_info[1]),
                              !.disentangler_costs = Passed(debug_info[2]),
                              !.disentangler_deltas = Passed(debug_info[3]),
                              !.disentangler_tCG_iters = Passed(debug_info[4])]
              ELSE d1
    IN  Return(frame, iterate, d2)

disentangle_CG_return ==
    /\ pc = "optimizing"
    /\ drivers[1].name = "disentangle_CG"
    /\ ReturnCG(drivers[1])

disentangle_approx_CG_return ==
    /\ pc = "optimizing"
    /\ drivers[1].name = "disentangle_approx_CG"
    /\ ReturnCG(drivers[1])

disentangle_TRM_return ==
    /\ pc = "optimizing"
    /\ drivers[1].name = "disentangle_TRM"
    /\ ReturnTRM(drivers[1])

disentangle_approx_TRM_return ==
    /\ pc = "optimizing"
    /\ drivers[1].name = "disentangle_approx_TRM"
    /\ ReturnTRM(drivers[1])

(***************************************************************************)
(* The caller: inputs of a call and the dictionary it owns                 *)
(***************************************************************************)
Thetas == { [name |-> "theta_a", shape |-> <<1, 2, 1, 1>>],
            [name |-> "theta_b", shape |-> <<2, 1, 2, 3>>] }

Chis == 1..MaxChi

MethodArgs == {Omitted, Passed("trm"), Passed("cg"), Passed("TRM"), Passed("renyi")}

\* the exact drivers have no tuning parameters: every keyword is an
\* optimizer hyperparameter
ExactKwargs == {NoKwargs, [NoKwargs EXCEPT !.options = Passed("options")]}

ApproxKwargs ==
    ExactKwargs \cup
    { [NoKwargs EXCEPT !.N_iters_svd = Passed(None)],
      [NoKwargs EXCEPT !.N_iters_svd = Passed(None),
                       !.N_iters_svd_initial = Passed(None)],
      [NoKwargs EXCEPT !.N_iters_svd = Passed(Num(3)), !.eps_svd = Passed(1)],
      [NoKwargs EXCEPT !.chi_max = Passed(None), !.options = Passed("options")],
      [NoKwargs EXCEPT !.chi_max = Passed(Num(1))] }

\* chi_max is a parameter of disentangle_approx_TRM only
ApproxCGKwargs == {k \in ApproxKwargs : k.chi_max = Omitted}

EmptyDict(levels) ==
    [debug_level |-> levels, caller_key |-> Passed("caller value"),
     N_iters_disentangler |-> Omitted,
     disentangler_num_restarts_not_descent |-> Omitted,
     disentangler_num_restarts_powell |-> Omitted,
     disentangler_iterates |-> Omitted, disentangler_costs |-> Omitted,
     disentangler_step_sizes |-> Omitted, disentangler_deltas |-> Omitted,
     disentangler_tCG_iters |-> Omitted]

UsedDict(levels) ==
    [EmptyDict(levels) EXCEPT
        !.N_iters_disentangler = Passed(<<1>>),
        !.disentangler_num_restarts_powell = Passed(<<1>>),
        !.disentangler_costs = Passed([what |-> "earlier costs", n |-> 1]),
        !.disentangler_deltas = Passed([what |-> "earlier deltas", n |-> 1])]

InitDicts == {EmptyDict(L) : L \in SUBSET DebugLevel}
             \cup {UsedDict(L) : L \in SUBSET DebugLevel}

Enter(entry, theta, chi, method, debug, kwargs) ==
    /\ call' = [entry |-> entry, theta |-> theta, chi |-> chi,
                method |-> method, debug |-> debug, kwargs |-> kwargs]
    /\ dict_before' = debug_dict
    /\ runs' = runs + 1
    /\ UNCHANGED <<dict0, done>>

Invoke_disentangle(T, C, K) ==
    \E theta \in T, chi \in C, method \in MethodArgs, debug \in BOOLEAN,
       kwargs \in K :
        /\ Enter("disentangle", theta, chi, method, debug, kwargs)
        /\ disentangle(theta, chi, method, debug, kwargs)

Invoke_disentangle_approx(T, C, K) ==
    \E theta \in T, chi \in C, method \in MethodArgs, debug \in BOOLEAN,
       kwargs \in K :
        /\ Default(method, "cg") = "cg" => kwargs \in ApproxCGKwargs
        /\ Enter("disentangle_approx", theta, chi, method, debug, kwargs)
        /\ disentangle_approx(theta, chi, method, debug, kwargs)

Invoke_disentangle_CG(T, C, K) ==
    \E theta \in T, chi \in C, debug \in BOOLEAN, kwargs \in K :
        /\ Enter("disentangle_CG", theta, chi, Omitted, debug, kwargs)
        /\ disentangle_CG(theta, chi, debug, kwargs)

Invoke_disentangle_approx_CG(T, C, K) ==
    \E theta \in T, chi \in C, debug \in BOOLEAN, kwargs \in K :
        /\ Enter("disentangle_approx_CG", theta, chi, Omitted, debug, kwargs)
        /\ disentangle_approx_CG(theta, chi, debug, kwargs)

Invoke_disentangle_TRM(T, C, K) ==
    \E theta \in T, chi \in C, debug \in BOOLEAN, kwargs \in K :
        /\ Enter("disentangle_TRM", theta, chi, Omitted, debug, kwargs)
        /\ disentangle_TRM(theta, chi, debug, kwargs)

Invoke_disentangle_approx_TRM(T, C, K) ==
    \E theta \in T, chi \in C, debug \in BOOLEAN, kwargs \in K :
        /\ Enter("disentangle_approx_TRM", theta, chi, Omitted, debug, kwargs)
        /\ disentangle_approx_TRM(theta, chi, debug, kwargs)

\* one call, over all inputs
Call_disentangle ==
    pc = "idle" /\ Invoke_disentangle(Thetas, Chis, ExactKwargs)
Call_disentangle_approx ==
    pc = "idle" /\ Invoke_disentangle_approx(Thetas, Chis, ApproxKwargs)
Call_disentangle_CG ==
    pc = "idle" /\ Invoke_disentangle_CG(Thetas, Chis, ExactKwargs)
Call_disentangle_approx_CG ==
    pc = "idle" /\ Invoke_disentangle_approx_CG(Thetas, Chis, ApproxCGKwargs)
Call_disentangle_TRM ==
    pc = "idle" /\ Invoke_disentangle_TRM(Thetas, Chis, ExactKwargs)
Call_disentangle_approx_TRM ==
    pc = "idle" /\ Invoke_disentangle_approx_TRM(Thetas, Chis, ApproxKwargs)

\* a sequence of calls on one tensor with default tuning, sharing debug_dict
SharedTheta == [name |-> "theta_c", shape |-> <<2, 1, 1, 2>>]

Again_disentangle_CG ==
    /\ pc = "idle" /\ runs < MaxRuns
    /\ Invoke_disentangle_CG({SharedTheta}, {1}, {NoKwargs})
Again_disentangle_approx_CG ==
    /\ pc = "idle" /\ runs < MaxRuns
    /\ Invoke_disentangle_approx_CG({SharedTheta}, {1}, {NoKwargs})
Again_disentangle_TRM ==
    /\ pc = "idle" /\ runs < MaxRuns
    /\ Invoke_disentangle_TRM({SharedTheta}, {1}, {NoKwargs})
Again_disentangle_approx_TRM ==
    /\ pc = "idle" /\ runs < MaxRuns
    /\ Invoke_disentangle_approx_TRM({SharedTheta}, {1}, {NoKwargs})

\* the caller drops the outcome of a call and is ready for the next one
Continue ==
    /\ pc \in {"returned", "raised"}
    /\ runs < MaxRuns
    /\ pc' = "idle"
    /\ call' = NoCall
    /\ drivers' = <<>>
    /\ opt' = NoOptimizer
    /\ cur' = NoIterate
    /\ last' = NoLast
    /\ next_id' = 0
    /\ result' = None
    /\ raised' = None
    /\ dict_before' = debug_dict
    /\ UNCHANGED <<debug_dict, dict0, done, runs>>

Init ==
    /\ pc = "idle"
    /\ call = NoCall
    /\ drivers = <<>>
    /\ opt = NoOptimizer
    /\ cur = NoIterate
    /\ last = NoLast
    /\ next_id = 0
    /\ result = None
    /\ raised = None
    /\ debug_dict \in InitDicts
    /\ dict_before = debug_dict
    /\ dict0 = debug_dict
    /\ done = [all |-> 0, CG |-> 0]
    /\ runs = 0

Next ==
    \/ Call_disentangle
    \/ Call_disentangle_approx
    \/ Call_disentangle_CG
    \/ Call_disentangle_approx_CG
    \/ Call_disentangle_TRM
    \/ Call_disentangle_approx_TRM
    \/ ConjugateGradientsStep
    \/ TrustRegionStep
    \/ disentangle_CG_return
    \/ disentangle_approx_CG_return
    \/ disentangle_TRM_return
    \/ disentangle_approx_TRM_return

Spec == Init /\ [][Next]_vars

NextRuns ==
    \/ Again_disentangle_CG
    \/ Again_disentangle_approx_CG
    \/ Again_disentangle_TRM
    \/ Again_disentangle_approx_TRM
    \/ ConjugateGradientsStep
    \/ TrustRegionStep
    \/ disentangle_CG_return
    \/ disentangle_approx_CG_return
    \/ disentangle_TRM_return
    \/ disentangle_approx_TRM_return
    \/ Continue

SpecRuns == Init /\ [][NextRuns]_vars

(***************************************************************************)
(* Properties                                                              *)
(***************************************************************************)
Running == pc \in {"optimizing", "returned"}

SUMMARY == LOG_DISENTANGLER_TRIPARTITE_DECOMPOSITION_ITERATION_INFO
PER_ITERATION == LOG_PER_ITERATION_DEBUG_INFO_DISENTANGLER_TRIPARTITE_DECOMPOSITION

ListAt(d, key) == IF d[key] = Omitted THEN <<>> ELSE d[key][1]

Extends(long, short, k) ==
    /\ Len(long) = Len(short) + k
    /\ SubSeq(long, 1, Len(short)) = short

ApproxDrivers == {"disentangle_approx_CG", "disentangle_approx_TRM"}
CGDrivers == {"disentangle_CG", "disentangle_approx_CG"}

\* C1: a method string other than "trm" and "cg" makes both dispatchers end
\* in NotImplementedError; no driver is entered, no iterate or optimizer is
\* built, optimize() is not called and debug_dict is as it was before the call.
C1_UnsupportedMethodRaises ==
    ( /\ pc # "idle"
      /\ call.entry \in {"disentangle", "disentangle_approx"}
      /\ call.method # Omitted
      /\ call.method[1] \notin {"trm", "cg"} )
    => /\ pc = "raised"
       /\ raised = Passed("NotImplementedError")
       /\ result = None
       /\ drivers = <<>>
       /\ opt = NoOptimizer
       /\ next_id = 0
       /\ debug_dict = dict_before

C1_Witness ==
    /\ pc = "raised"
    /\ call.entry = "disentangle_approx"
    /\ call.method = Passed("renyi")
    /\ call.debug
    /\ debug_dict.debug_level = DebugLevel
    /\ debug_dict.N_iters_disentangler = Passed(<<1>>)

\* C2: each dispatcher enters exactly one driver, the one its method selects
\* (disentangle: TRM for "trm" or no method, CG for "cg"; disentangle_approx:
\* approx CG for "cg" or no method, approx TRM for "trm"); theta, chi,
\* debug_dict and the keyword arguments reach it unchanged and the call
\* returns what the driver returns.
C2_DispatchRoutes ==
    ( Running /\ call.entry \in {"disentangle", "disentangle_approx"} )
    => /\ Len(drivers) = 1
       /\ drivers[1].name =
            IF call.entry = "disentangle"
            THEN (IF call.method \in {Omitted, Passed("trm")}
                  THEN "disentangle_TRM" ELSE "disentangle_CG")
            ELSE (IF call.method \in {Omitted, Passed("cg")}
                  THEN "disentangle_approx_CG" ELSE "disentangle_approx_TRM")
       /\ call.method \in {Omitted, Passed("trm"), Passed("cg")}
       /\ drivers[1].theta = call.theta
       /\ drivers[1].chi = call.chi
       /\ drivers[1].debug = call.debug
       /\ drivers[1].kwargs = call.kwargs
       /\ opt.optimize_calls = 1
       /\ (pc = "returned" => result = Passed(cur))

C2_Witness ==
    /\ pc = "returned"
    /\ call.entry = "disentangle_approx"
    /\ call.method = Omitted
    /\ call.kwargs.N_iters_svd = Passed(Num(3))
    /\ call.chi = 2
    /\ drivers[1].name = "disentangle_approx_CG"
    /\ opt.n = 2

\* C3: a driver returns the optimized unitary, an array of shape
\* (D1, D2, D1, D2), and not the iterate object optimize() hands back.
C3_ReturnsUnitaryArray ==
    pc = "returned"
    => /\ DOMAIN result[1] = {"shape", "data"}
       /\ result[1].shape = <<call.theta.shape[2], call.theta.shape[3],
                              call.theta.shape[2], call.theta.shape[3]>>

\* C4: in both approximate drivers the iterate the closure builds for
\* (candidate U, previous iterate) has old_iterate equal to that previous
\* iterate.
C4_WarmStartFromPredecessor ==
    ( Running /\ last.called /\ drivers[1].name \in ApproxDrivers )
    => last.iterate.old_iterate = last.old_iterate

\* C5: when chi_max is not supplied or is None, every iterate of the run,
\* the initial one and each one built by the closure, has chi_max = chi.
C5_ChiMaxDefaultsToChi ==
    ( Running /\ Default(drivers[1].kwargs.chi_max, None) = None )
    => /\ opt.initial.chi_max = drivers[1].chi
       /\ cur.chi_max = drivers[1].chi
       /\ (last.called => last.iterate.chi_max = drivers[1].chi)

C5_Witness ==
    /\ pc = "optimizing"
    /\ drivers[1].name = "disentangle_approx_TRM"
    /\ drivers[1].kwargs.chi_max = Passed(None)
    /\ drivers[1].chi = 2
    /\ last.called
    /\ last.iterate.id = 2
    /\ last.iterate.chi_max = 2

\* C6: over a sequence of completed driver runs sharing one debug_dict with
\* the summary level enabled, every run extends the list under
\* "N_iters_disentangler" by exactly its own iteration count, every CG run
\* extends the two restart-count lists by its restart counts, earlier entries
\* and the keys a run does not own stay as they are; so the lists hold what
\* the dict held before the first run followed by one entry per run.
C6_Lists ==
    SUMMARY \in dict0.debug_level
    => /\ Extends(ListAt(debug_dict, "N_iters_disentangler"),
                  ListAt(dict0, "N_iters_disentangler"), done.all)
       /\ Extends(ListAt(debug_dict, "disentangler_num_restarts_not_descent"),
                  ListAt(dict0, "disentangler_num_restarts_not_descent"), done.CG)
       /\ Extends(ListAt(debug_dict, "disentangler_num_restarts_powell"),
                  ListAt(dict0, "disentangler_num_restarts_powell"), done.CG)

C6_Run ==
    /\ debug_dict'.caller_key = debug_dict.caller_key
    /\ debug_dict'.debug_level = debug_dict.debug_level
    /\ IF pc = "optimizing" /\ pc' = "returned" /\ drivers[1].debug
          /\ SUMMARY \in debug_dict.debug_level
       THEN /\ ListAt(debug_dict', "N_iters_disentangler")
                 = Append(ListAt(debug_dict, "N_iters_disentangler"), opt.n)
            /\ IF drivers[1].name \in CGDrivers
               THEN /\ ListAt(debug_dict', "disentangler_num_restarts_not_descent")
                         = Append(ListAt(debug_dict,
                                         "disentangler_num_restarts_not_descent"),
                                  opt.num_restarts_not_descent)
                    /\ ListAt(debug_dict', "disentangler_num_restarts_powell")
                         = Append(ListAt(debug_dict,
                                         "disentangler_num_restarts_powell"),
                                  opt.num_restarts_powell)
                    /\ debug_dict'.disentangler_deltas = debug_dict.disentangler_deltas
                    /\ debug_dict'.disentangler_tCG_iters
                         = debug_dict.disentangler_tCG_iters
               ELSE /\ debug_dict'.disentangler_num_restarts_not_descent
                         = debug_dict.disentangler_num_restarts_not_descent
                    /\ debug_dict'.disentangler_num_restarts_powell
                         = debug_dict.disentangler_num_restarts_powell
                    /\ debug_dict'.disentangler_step_sizes
                         = debug_dict.disentangler_step_sizes
       ELSE /\ debug_dict'.N_iters_disentangler = debug_dict.N_iters_disentangler
            /\ debug_dict'.disentangler_num_restarts_not_descent
                 = debug_dict.disentangler_num_restarts_not_descent
            /\ debug_dict'.disentangler_num_restarts_powell
                 = debug_dict.disentangler_num_restarts_powell

\* C6: the lists always hold the earlier contents followed by one entry per
\* completed run (C6_Lists), and every step of a run appends exactly its own
\* counts and leaves the keys it does not own alone (C6_Run).
C6_SummaryListsGrowByOnePerRun == [](C6_Lists) /\ [][C6_Run]_vars

C6_Witness ==
    /\ pc = "returned"
    /\ done.all = 2
    /\ done.CG = 1
    /\ dict0.N_iters_disentangler = Passed(<<1>>)
    /\ debug_dict.N_iters_disentangler = Passed(<<1, 2, 1>>)
    /\ debug_dict.disentangler_num_restarts_not_descent = Passed(<<1>>)
    /\ debug_dict.disentangler_num_restarts_powell = Passed(<<1, 1>>)

\* C7: the summary keys are written exactly when the summary level is
\* enabled, the per-iteration keys exactly when the per-iteration level is
\* enabled, optimize() gets that same per-iteration flag, and with neither
\* level (or with debug_dict = None) the run leaves debug_dict unchanged.
C7_IndependentGates ==
    Running =>
    LET f == drivers[1]
        summary == f.debug /\ SUMMARY \in dict_before.debug_level
        per_iteration == f.debug /\ PER_ITERATION \in dict_before.debug_level
        cg == f.name \in CGDrivers
        summary_keys ==
            IF cg THEN {"N_iters_disentangler",
                        "disentangler_num_restarts_not_descent",
                        "disentangler_num_restarts_powell"}
            ELSE {"N_iters_disentangler"}
        info == IF cg
                THEN [disentangler_iterates |-> "iterates",
                      disentangler_costs |-> "costs",
                      disentangler_step_sizes |-> "step_sizes"]
                ELSE [disentangler_iterates |-> "iterates",
                      disentangler_costs |-> "costs",
                      disentangler_deltas |-> "deltas",
                      disentangler_tCG_iters |-> "tCG_iters"]
        owned == summary_keys \cup DOMAIN info
    IN  /\ opt.log_debug_info = per_iteration
        /\ pc = "optimizing" => debug_dict = dict_before
        /\ pc = "returned" =>
             /\ \A k \in summary_keys :
                  IF summary
                  THEN Extends(ListAt(debug_dict, k), ListAt(dict_before, k), 1)
                  ELSE debug_dict[k] = dict_before[k]
             /\ \A k \in DOMAIN info :
                  IF per_iteration
                  THEN debug_dict[k] = Passed([what |-> info[k], n |-> opt.n])
                  ELSE debug_dict[k] = dict_before[k]
             /\ \A k \in DOMAIN debug_dict \ owned :
                  debug_dict[k] = dict_before[k]
             /\ (~summary /\ ~per_iteration) => debug_dict = dict_before

C7_Witness ==
    /\ pc = "returned"
    /\ drivers[1].name = "disentangle_CG"
    /\ drivers[1].debug
    /\ dict_before.debug_level = {SUMMARY}
    /\ dict_before.disentangler_costs # Omitted
    /\ debug_dict.N_iters_disentangler = Passed(<<1, 2>>)
    /\ debug_dict.disentangler_costs = dict_before.disentangler_costs
    /\ debug_dict.disentangler_step_sizes = Omitted

\* C9: optimize() is called exactly once per driver call, on an initial
\* iterate at the identity reshaped to (D1, D2, D1, D2) with no previous
\* iterate; the approximate drivers build it with N_iters_svd_initial, and
\* every iterate of the closure uses N_iters_svd, with the same theta, chi
\* and eps_svd throughout.
C9_InitialIterateAndSvdIterations ==
    Running =>
    LET f == drivers[1]
        D1 == f.theta.shape[2]
        D2 == f.theta.shape[3]
        U0 == opt.initial.U
        approx == f.name \in ApproxDrivers
        N_iters_svd ==
            Default(f.kwargs.N_iters_svd,
                    Num(IF f.name = "disentangle_approx_CG"
                        THEN N_iters_svd_CG ELSE N_iters_svd_TRM))
        N_iters_svd_initial ==
            Default(f.kwargs.N_iters_svd_initial,
                    Num(IF f.name = "disentangle_approx_CG"
                        THEN N_iters_svd_initial_CG ELSE N_iters_svd_initial_TRM))
        eps_svd == IF approx THEN Default(f.kwargs.eps_svd, 0) ELSE 0
        Same(it) == it.theta = f.theta /\ it.chi = f.chi /\ it.eps_svd = eps_svd
    IN  /\ opt.optimize_calls = 1
        /\ opt.initial.id = 0
        /\ opt.initial.old_iterate = None
        /\ U0.shape = <<D1, D2, D1, D2>>
        /\ \A a \in 0..D1-1, b \in 0..D2-1, c \in 0..D1-1, d \in 0..D2-1 :
              U0.data[<<a, b, c, d>>] = IF a = c /\ b = d THEN 1 ELSE 0
        /\ Same(opt.initial)
        /\ Same(cur)
        /\ approx => opt.initial.N_iters_svd = N_iters_svd_initial
        /\ last.called =>
              /\ Same(last.iterate)
              /\ last.iterate.id > 0
              /\ approx => last.iterate.N_iters_svd = N_iters_svd

C9_Witness ==
    /\ pc = "returned"
    /\ drivers[1].name = "disentangle_approx_CG"
    /\ drivers[1].theta.shape = <<2, 1, 2, 3>>
    /\ drivers[1].kwargs.N_iters_svd = Passed(Num(3))
    /\ opt.initial.N_iters_svd = Num(N_iters_svd_initial_CG)
    /\ opt.initial.eps_svd = 1
    /\ last.called
    /\ last.iterate.N_iters_svd = Num(3)
    /\ last.iterate.id = 2
    /\ last.U # opt.initial.U

\* What disentangle_CG builds for the same theta, chi and optimizer keywords
ExactRunMatches(f) ==
    LET c == Closure("disentangle_CG", f.theta, f.chi, None, None, 0)
    IN  /\ opt.initial = construct_new_iterate_CG(c, 0, f.U0, None)
        /\ opt.engine = "CG"
        /\ opt.kwargs.options = f.kwargs.options
        /\ last.called =>
             last.iterate = construct_new_iterate_CG(c, last.iterate.id, last.U,
                                                     last.old_iterate)
        /\ cur = construct_new_iterate_CG(c, cur.id, cur.U, None)

====
